---- MODULE Spec2Model ----
(***************************************************************************)
(* Model of the RTS (Real-time Station) binary format v1 decoder,          *)
(* golang/rts.go: the primitive readers over a byte source and the         *)
(* single-pass Parse that composes them.                                   *)
(*                                                                         *)
(* Number representations.  TLC integers are 32 bits wide, the program's   *)
(* are up to 64, so wide integers are kept in 24-bit limbs:                *)
(*   int64   <<l0, l1, l2>>  l0, l1 in 0..2^24-1, l2 in 0..2^16-1,         *)
(*           two's complement, value l0 + l1*2^24 + l2*2^48 (mod 2^64)     *)
(*   uint32  <<l0, l1>>      l0 in 0..2^24-1, l1 in 0..255                 *)
(* A float64 is kept as the exact rational [num, den] it is the nearest    *)
(* double to; every operand of the program's float arithmetic is an        *)
(* integer below 2^53 or a quotient of two such, and math.Round is only    *)
(* applied to values whose distance to an integer is below 2^-40, so the   *)
(* rational and the double round alike.                                    *)
(***************************************************************************)
EXTENDS Integers, Sequences, FiniteSets, TLC

\* ----------------------------------------------------------------- bounds
MaxStations == 2
MaxAreas == 2
MaxExtra == 1

\* ------------------------------------------------------ program constants
SupportedVersion == 1
\* Epoch = 1767225600000 = EpochHi * 2^24 + EpochLo
EpochLo == 14329856
EpochHi == 105334
VarIntScale == 100
IntensityOffset == 3

B8 == 2 ^ 8
B16 == 2 ^ 16
B24 == 2 ^ 24

Epoch == <<EpochLo, EpochHi, 0>>

Min(a, b) == IF a < b THEN a ELSE b

\* ------------------------------------------------------- bit operations
RECURSIVE BitAnd(_, _)
BitAnd(a, b) ==
  IF a = 0 \/ b = 0 THEN 0
  ELSE (IF a % 2 = 1 /\ b % 2 = 1 THEN 1 ELSE 0) + 2 * BitAnd(a \div 2, b \div 2)

RECURSIVE BitOr(_, _)
BitOr(a, b) ==
  IF a = 0 THEN b
  ELSE IF b = 0 THEN a
  ELSE (IF a % 2 = 1 \/ b % 2 = 1 THEN 1 ELSE 0) + 2 * BitOr(a \div 2, b \div 2)

\* --------------------------------------------------------------- int64
Int64(b) == <<b, 0, 0>>

Or64(x, y) == <<BitOr(x[1], y[1]), BitOr(x[2], y[2]), BitOr(x[3], y[3])>>

Wrap64(z) == <<z[1], z[2], z[3] % B16>>

\* x << n on a 64-bit integer, 0 <= n < 64: bits shifted past bit 63 are lost.
Shl64(x, n) ==
  LET q == n \div 24
      r == n % 24
      lo(k) == (x[k] % (2 ^ (24 - r))) * (2 ^ r)
      up(k) == IF k >= 1 THEN x[k] \div (2 ^ (24 - r)) ELSE 0
      y == [k \in 1..3 |-> lo(k) + up(k - 1)]
      z == [k \in 1..3 |-> IF k - q >= 1 THEN y[k - q] ELSE 0]
  IN Wrap64(z)

Negative64(x) == x[3] >= 2 ^ 15

\* x >> n on a signed 64-bit integer, 0 <= n < 64: the sign bit fills in.
Sar64(x, n) ==
  LET q == n \div 24
      r == n % 24
      fill == IF Negative64(x) THEN B24 - 1 ELSE 0
      ext == <<x[1], x[2], IF Negative64(x) THEN x[3] + (B24 - B16) ELSE x[3]>>
      y == [k \in 1..4 |-> IF k + q <= 3 THEN ext[k + q] ELSE fill]
      z == [k \in 1..3 |-> (y[k] \div (2 ^ r)) + (y[k + 1] % (2 ^ r)) * (2 ^ (24 - r))]
  IN Wrap64(z)

\* x + y on 64-bit integers, wrapping.
Add64(x, y) ==
  LET s1 == x[1] + y[1]
      s2 == x[2] + y[2] + (s1 \div B24)
      s3 == x[3] + y[3] + (s2 \div B24)
  IN <<s1 % B24, s2 % B24, s3 % B16>>

\* ------------------------------------------------------------- float64
Float64(n) == [num |-> n, den |-> 1]
FDiv(x, k) == [num |-> x.num, den |-> x.den * k]
FSub(x, k) == [num |-> x.num - k * x.den, den |-> x.den]
FMul(x, k) == [num |-> x.num * k, den |-> x.den]

\* math.Round: the nearest integer, halves away from zero.
MathRound(x) ==
  Float64(IF x.num >= 0
          THEN (2 * x.num + x.den) \div (2 * x.den)
          ELSE -((2 * (-x.num) + x.den) \div (2 * x.den)))

\* --------------------------------------------------------------- errors
NoErr == [kind |-> "nil"]
ErrEOF == [kind |-> "EOF"]
ErrUnexpectedEOF == [kind |-> "unexpected EOF"]
\* Variant: the message formats the supported version instead of the one read.
ErrUnsupportedVersionFormatsConstant(v) ==
  [kind |-> "unsupported RTS version", version |-> SupportedVersion]

ErrUnsupportedVersion(v) == [kind |-> "unsupported RTS version", version |-> v]

\* ------------------------------------------------------ primitive readers
\* Every reader takes the source's bytes and the read position and gives
\* [err, val, pos, calls]: the error, the value, the position after the read
\* and the readExact calls it made, each as [off, size, got].

\* io.ReadFull on the source: all size bytes, or io.EOF when none is left,
\* or io.ErrUnexpectedEOF when some but fewer are left (and are consumed).
\* Variant: every short read is reported as io.ErrUnexpectedEOF.
ReadExactAlwaysUnexpectedEOF(inp, p, size) ==
  LET avail == Len(inp) - p
      call == [off |-> p, size |-> size, got |-> Min(size, avail)]
  IN IF avail >= size
     THEN [err |-> NoErr, val |-> SubSeq(inp, p + 1, p + size),
           pos |-> p + size, calls |-> <<call>>]
     ELSE [err |-> [kind |-> "unexpected EOF"], val |-> <<>>, pos |-> Len(inp),
           calls |-> <<call>>]

\* Variant: the error of io.ReadFull is dropped and the zero-filled buffer used.
ReadExactIgnoringError(inp, p, size) ==
  LET avail == Len(inp) - p
  IN [err |-> NoErr,
      val |-> [k \in 1..size |-> IF p + k <= Len(inp) THEN inp[p + k] ELSE 0],
      pos |-> Min(p + size, Len(inp)),
      calls |-> <<[off |-> p, size |-> size, got |-> Min(size, avail)]>>]

ReadExact(inp, p, size) ==
  LET avail == Len(inp) - p
      got == Min(size, avail)
      call == [off |-> p, size |-> size, got |-> got]
  IN IF avail >= size
     THEN [err |-> NoErr, val |-> SubSeq(inp, p + 1, p + size),
           pos |-> p + size, calls |-> <<call>>]
     ELSE IF avail = 0
     THEN [err |-> ErrEOF, val |-> <<>>, pos |-> p, calls |-> <<call>>]
     ELSE [err |-> ErrUnexpectedEOF, val |-> <<>>, pos |-> Len(inp), calls |-> <<call>>]

Uint16LE(buf) == BitOr(buf[1], buf[2] * B8)

Uint32LE(buf) == <<BitOr(buf[1], BitOr(buf[2] * B8, buf[3] * B16)), buf[4]>>

ReadU8(inp, p) ==
  LET r == ReadExact(inp, p, 1)
  IN IF r.err.kind # "nil" THEN [r EXCEPT !.val = 0]
     ELSE [r EXCEPT !.val = r.val[1]]

ReadU16(inp, p) ==
  LET r == ReadExact(inp, p, 2)
  IN IF r.err.kind # "nil" THEN [r EXCEPT !.val = 0]
     ELSE [r EXCEPT !.val = Uint16LE(r.val)]

ReadU32(inp, p) ==
  LET r == ReadExact(inp, p, 4)
  IN IF r.err.kind # "nil" THEN [r EXCEPT !.val = <<0, 0>>]
     ELSE [r EXCEPT !.val = Uint32LE(r.val)]

\* Variant: the 40-bit value is used without sign extension.
ZeroExtend40(raw) == raw

\* The sign extension of readTime40: raw << 24 >> 24.
SignExtend40(raw) == Sar64(Shl64(raw, 24), 24)

ReadTime40(inp, p) ==
  LET r == ReadExact(inp, p, 5)
      buf == r.val
      raw == Or64(Int64(buf[1]),
             Or64(Shl64(Int64(buf[2]), 8),
             Or64(Shl64(Int64(buf[3]), 16),
             Or64(Shl64(Int64(buf[4]), 24),
                  Shl64(Int64(buf[5]), 32)))))
  IN IF r.err.kind # "nil" THEN [r EXCEPT !.val = Int64(0)]
     ELSE [r EXCEPT !.val = Add64(Epoch, SignExtend40(raw))]

\* Variant: the third byte of the u24 is left out.
Uint24LEWithoutHighByte(buf) == BitOr(buf[1], buf[2] * B8)

\* The u24 of readVarInt's 0xFE branch.
Uint24LE(buf) == BitOr(buf[1], BitOr(buf[2] * B8, buf[3] * B16))

VarIntResult(rawVal) == FDiv(Float64(rawVal), VarIntScale)

\* Variant: the 0xFE marker is followed by 4 bytes instead of 3.
ReadVarIntWideFE(inp, p) ==
  LET m == ReadU8(inp, p)
      marker == m.val
      w == ReadU16(inp, m.pos)
      t == ReadExact(inp, m.pos, 4)
  IN IF m.err.kind # "nil" THEN [m EXCEPT !.val = Float64(0)]
     ELSE IF marker <= 252
     THEN [m EXCEPT !.val = VarIntResult(marker)]
     ELSE IF marker = 253
     THEN IF w.err.kind # "nil"
          THEN [err |-> w.err, val |-> Float64(0), pos |-> w.pos, calls |-> m.calls \o w.calls]
          ELSE [err |-> NoErr, val |-> VarIntResult(w.val), pos |-> w.pos,
                calls |-> m.calls \o w.calls]
     ELSE IF marker = 254
     THEN IF t.err.kind # "nil"
          THEN [err |-> t.err, val |-> Float64(0), pos |-> t.pos, calls |-> m.calls \o t.calls]
          ELSE [err |-> NoErr, val |-> VarIntResult(Uint24LE(t.val)), pos |-> t.pos,
                calls |-> m.calls \o t.calls]
     ELSE [m EXCEPT !.val = VarIntResult(0)]

ReadVarInt(inp, p) ==
  LET m == ReadU8(inp, p)
      marker == m.val
      w == ReadU16(inp, m.pos)
      t == ReadExact(inp, m.pos, 3)
  IN IF m.err.kind # "nil" THEN [m EXCEPT !.val = Float64(0)]
     ELSE IF marker <= 252
     THEN [m EXCEPT !.val = VarIntResult(marker)]
     ELSE IF marker = 253
     THEN IF w.err.kind # "nil"
          THEN [err |-> w.err, val |-> Float64(0), pos |-> w.pos, calls |-> m.calls \o w.calls]
          ELSE [err |-> NoErr, val |-> VarIntResult(w.val), pos |-> w.pos,
                calls |-> m.calls \o w.calls]
     ELSE IF marker = 254
     THEN IF t.err.kind # "nil"
          THEN [err |-> t.err, val |-> Float64(0), pos |-> t.pos, calls |-> m.calls \o t.calls]
          ELSE [err |-> NoErr, val |-> VarIntResult(Uint24LE(t.val)), pos |-> t.pos,
                calls |-> m.calls \o t.calls]
     ELSE [m EXCEPT !.val = VarIntResult(0)]

\* Variant: the alert bit is not masked out of the magnitude.
StationIntensityUnmasked(raw) ==
  LET val == FSub(FDiv(Float64(raw), 10), IntensityOffset)
  IN FDiv(MathRound(FMul(val, 10)), 10)

\* ((raw & 0x7F) / 10.0) - 3.0, rounded to one decimal place.
StationIntensity(raw) ==
  LET val == FSub(FDiv(Float64(BitAnd(raw, 127)), 10), IntensityOffset)
  IN FDiv(MathRound(FMul(val, 10)), 10)

IsAlert(raw) == BitAnd(raw, 128) # 0

ReadIntensityAlert(inp, p) ==
  LET r == ReadU8(inp, p)
  IN IF r.err.kind # "nil"
     THEN [r EXCEPT !.val = [intensity |-> Float64(0), isAlert |-> FALSE]]
     ELSE [r EXCEPT !.val = [intensity |-> StationIntensity(r.val),
                             isAlert |-> IsAlert(r.val)]]

\* Variant: the area byte is masked like the station's intensity/alert byte.
AreaIntensityMasked(rawI) == StationIntensity(rawI)

\* The area intensity of Parse: (rawI / 10.0) - 3.0, rounded to one decimal place.
AreaIntensityOf(rawI) ==
  LET val == FSub(FDiv(Float64(rawI), 10), IntensityOffset)
  IN FDiv(MathRound(FMul(val, 10)), 10)

\* ---------------------------------------------------------------- state
VARIABLES
  input,        \* the bytes of the source behind p.reader
  pos,          \* how many of them the reader has handed out
  pc,           \* where the running call stands
  err,          \* the error Parse returned
  result,       \* the *RTSData Parse returned
  version, timestampMs, stationCount, intCount,   \* Parse's header locals
  header, stations, areaInts, i,                  \* Parse's header, slices and loop index
  id, pga, pgv, code,                             \* the fields of the record being read
  reads,        \* every readExact call so far: [at, rec, off, size, got]
  out           \* what a reader called on its own returned

vars == <<input, pos, pc, err, result, version, timestampMs, stationCount, intCount,
          header, stations, areaInts, i, id, pga, pgv, code, reads, out>>

NilData == [kind |-> "nil"]

ZeroStation ==
  [ID |-> <<0, 0>>, PGA |-> Float64(0), PGV |-> Float64(0),
   Intensity |-> Float64(0), IsAlert |-> FALSE]

ZeroAreaIntensity == [Code |-> 0, Intensity |-> Float64(0)]

ZeroHeader ==
  [Version |-> 0, TimestampMs |-> Int64(0), StationCount |-> 0, IntCount |-> 0,
   Reserved |-> 0]

\* Variant: pga and pgv change places.
NewStationSwapped(sid, a, v, ia) ==
  [ID |-> sid, PGA |-> v, PGV |-> a, Intensity |-> ia.intensity, IsAlert |-> ia.isAlert]

\* Station{ID: id, PGA: pga, PGV: pgv, Intensity: intensity, IsAlert: isAlert}
NewStation(sid, a, v, ia) ==
  [ID |-> sid, PGA |-> a, PGV |-> v, Intensity |-> ia.intensity, IsAlert |-> ia.isAlert]

\* AreaIntensity{Code: code, Intensity: intensity}
NewAreaIntensity(c, rawI) == [Code |-> c, Intensity |-> AreaIntensityOf(rawI)]

\* make([]Station, stationCount)
MakeStations(n) == [k \in 1..n |-> ZeroStation]

\* make([]AreaIntensity, intCount)
MakeAreaInts(n) == [k \in 1..n |-> ZeroAreaIntensity]

\* ---------------------------------------------------------------- inputs
RECURSIVE Flatten(_)
Flatten(ss) == IF ss = <<>> THEN <<>> ELSE Head(ss) \o Flatten(Tail(ss))

Prefixes(s) == {SubSeq(s, 1, k) : k \in 0..Len(s)}

U16Bytes(n) == <<n % B8, n \div B8>>

\* Five-byte timestamps: the most negative and the most positive offset.
TimeSamples ==
  {<<0, 0, 0, 0, 128>>, <<255, 255, 255, 255, 127>>}

ReservedSamples == {<<239, 190>>}

\* Station records: id, pga, pgv, intensity/alert.
StationSamples ==
  { <<120, 86, 52, 18>> \o <<255>> \o <<50>> \o <<100>>,
    <<255, 255, 255, 255>> \o <<253, 150, 0>> \o <<254, 64, 66, 15>> \o <<228>>,
    <<0, 0, 0, 128>> \o <<254, 255, 255, 255>> \o <<254, 0, 0, 1>> \o <<0>> }

\* Area-intensity records: code, raw intensity.
AreaSamples == { <<16, 39, 100>>, <<255, 255, 228>> }

HeaderBytes(v, t, sc, ic, rsv) == <<v>> \o t \o U16Bytes(sc) \o U16Bytes(ic) \o rsv

\* Well-formed documents: the header's counts are the records that follow.
FullInputs ==
  UNION { UNION { { HeaderBytes(SupportedVersion, t, ns, na, rsv)
                      \o Flatten(ss) \o Flatten(as) :
                    t \in TimeSamples, rsv \in ReservedSamples,
                    ss \in [1..ns -> StationSamples], as \in [1..na -> AreaSamples] } :
                  na \in 0..MaxAreas } :
          ns \in 0..MaxStations }

\* Every truncation of a well-formed document, and every one with bytes after it.
TruncatedInputs == UNION { Prefixes(f) : f \in FullInputs }

ExtendedInputs == { f \o [k \in 1..n |-> 170] : f \in FullInputs, n \in 0..MaxExtra }

\* One station whose intensity/alert byte is b, one area whose raw intensity is b.
SweepInputs ==
  { HeaderBytes(SupportedVersion, <<0, 0, 0, 0, 0>>, 1, 0, <<0, 0>>)
      \o <<1, 2, 3, 4, 50, 0, b>> : b \in 0..255 }
  \cup
  { HeaderBytes(SupportedVersion, <<0, 0, 0, 0, 0>>, 0, 1, <<0, 0>>)
      \o <<16, 39, b>> : b \in 0..255 }

\* Any other first byte, alone or in front of an otherwise well-formed document.
BadVersionInputs ==
  { <<v>> \o rest : v \in (0..255) \ {SupportedVersion},
                    rest \in { <<>>,
                               <<0, 0, 0, 0, 0>> \o <<1, 0, 1, 0, 0, 0>>
                                 \o <<1, 2, 3, 4, 50, 0, 100>> \o <<16, 39, 100>> } }

ParseInputs == TruncatedInputs \cup ExtendedInputs \cup SweepInputs \cup BadVersionInputs

MaxTail == 3

TailBytes == {0, 255}

\* A marker byte and what follows it; five-byte timestamps.
PrimInputs ==
  { <<m>> \o t : m \in 0..255,
                 t \in UNION { [1..n -> TailBytes] : n \in 0..MaxTail }
                       \cup { <<150, 0>>, <<64, 66, 15>> } }
  \cup [1..5 -> {0, 1, 127, 128, 255}]

Init ==
  /\ \/ input \in ParseInputs /\ pc = "version"
     \/ input \in PrimInputs /\ pc = "prim"
  /\ pos = 0
  /\ err = NoErr
  /\ result = NilData
  /\ version = 0
  /\ timestampMs = Int64(0)
  /\ stationCount = 0
  /\ intCount = 0
  /\ header = ZeroHeader
  /\ stations = <<>>
  /\ areaInts = <<>>
  /\ i = 0
  /\ id = <<0, 0>>
  /\ pga = Float64(0)
  /\ pgv = Float64(0)
  /\ code = 0
  /\ reads = <<>>
  /\ out = [op |-> "none", err |-> NoErr, val |-> 0]

\* --------------------------------------------------------------- actions
Log(calls, at, rec) ==
  [k \in 1..Len(calls) |->
     [at |-> at, rec |-> rec, off |-> calls[k].off, size |-> calls[k].size,
      got |-> calls[k].got]]

\* The reader's effect of one field read r made at step `at` of record `rec`.
Consume(r, at, rec) ==
  /\ pos' = r.pos
  /\ reads' = reads \o Log(r.calls, at, rec)

\* Variant: what was decoded so far is returned next to the error.
FailWithPartialDocument(e) ==
  /\ err' = e
  /\ result' = [kind |-> "RTSData", Header |-> header, Stations |-> stations,
                AreaIntensities |-> areaInts]
  /\ pc' = "done"

\* return nil, err
Fail(e) ==
  /\ err' = e
  /\ result' = NilData
  /\ pc' = "done"

Goto(l) ==
  /\ pc' = l
  /\ UNCHANGED <<err, result>>

ReadVersion ==
  /\ pc = "version"
  /\ LET r == ReadU8(input, pos)
     IN /\ Consume(r, "version", 0)
        /\ version' = r.val
        /\ IF r.err.kind # "nil" THEN Fail(r.err)
           ELSE IF r.val # SupportedVersion THEN Fail(ErrUnsupportedVersion(r.val))
           ELSE Goto("timestamp")
  /\ UNCHANGED <<input, timestampMs, stationCount, intCount, header, stations,
                 areaInts, i, id, pga, pgv, code, out>>

ReadTimestamp ==
  /\ pc = "timestamp"
  /\ LET r == ReadTime40(input, pos)
     IN /\ Consume(r, "timestamp", 0)
        /\ timestampMs' = r.val
        /\ IF r.err.kind # "nil" THEN Fail(r.err) ELSE Goto("stationCount")
  /\ UNCHANGED <<input, version, stationCount, intCount, header, stations,
                 areaInts, i, id, pga, pgv, code, out>>

ReadStationCount ==
  /\ pc = "stationCount"
  /\ LET r == ReadU16(input, pos)
     IN /\ Consume(r, "stationCount", 0)
        /\ stationCount' = r.val
        /\ IF r.err.kind # "nil" THEN Fail(r.err) ELSE Goto("intCount")
  /\ UNCHANGED <<input, version, timestampMs, intCount, header, stations,
                 areaInts, i, id, pga, pgv, code, out>>

ReadIntCount ==
  /\ pc = "intCount"
  /\ LET r == ReadU16(input, pos)
     IN /\ Consume(r, "intCount", 0)
        /\ intCount' = r.val
        /\ IF r.err.kind # "nil" THEN Fail(r.err) ELSE Goto("reserved")
  /\ UNCHANGED <<input, version, timestampMs, stationCount, header, stations,
                 areaInts, i, id, pga, pgv, code, out>>

\* reserved, the header and the station slice; then the first loop test.
ReadReserved ==
  /\ pc = "reserved"
  /\ LET r == ReadU16(input, pos)
     IN /\ Consume(r, "reserved", 0)
        /\ IF r.err.kind # "nil"
           THEN Fail(r.err) /\ UNCHANGED <<header, stations, i>>
           ELSE /\ header' = [Version |-> version, TimestampMs |-> timestampMs,
                              StationCount |-> stationCount, IntCount |-> intCount,
                              Reserved |-> r.val]
                /\ stations' = MakeStations(stationCount)
                /\ i' = 0
                /\ Goto(IF 0 < stationCount THEN "id" ELSE "areas")
  /\ UNCHANGED <<input, version, timestampMs, stationCount, intCount,
                 areaInts, id, pga, pgv, code, out>>

ReadStationID ==
  /\ pc = "id"
  /\ LET r == ReadU32(input, pos)
     IN /\ Consume(r, "id", i + 1)
        /\ id' = r.val
        /\ IF r.err.kind # "nil" THEN Fail(r.err) ELSE Goto("pga")
  /\ UNCHANGED <<input, version, timestampMs, stationCount, intCount, header,
                 stations, areaInts, i, pga, pgv, code, out>>

ReadPGA ==
  /\ pc = "pga"
  /\ LET r == ReadVarInt(input, pos)
     IN /\ Consume(r, "pga", i + 1)
        /\ pga' = r.val
        /\ IF r.err.kind # "nil" THEN Fail(r.err) ELSE Goto("pgv")
  /\ UNCHANGED <<input, version, timestampMs, stationCount, intCount, header,
                 stations, areaInts, i, id, pgv, code, out>>

ReadPGV ==
  /\ pc = "pgv"
  /\ LET r == ReadVarInt(input, pos)
     IN /\ Consume(r, "pgv", i + 1)
        /\ pgv' = r.val
        /\ IF r.err.kind # "nil" THEN Fail(r.err) ELSE Goto("intensityAlert")
  /\ UNCHANGED <<input, version, timestampMs, stationCount, intCount, header,
                 stations, areaInts, i, id, pga, code, out>>

\* The record's last field, stations[i] = Station{...}, i++ and the loop test.
ReadStationIntensityAlert ==
  /\ pc = "intensityAlert"
  /\ LET r == ReadIntensityAlert(input, pos)
     IN /\ Consume(r, "intensityAlert", i + 1)
        /\ IF r.err.kind # "nil"
           THEN Fail(r.err) /\ UNCHANGED <<stations, i>>
           ELSE /\ stations' = [stations EXCEPT ![i + 1] =
                                  NewStation(id, pga, pgv, r.val)]
                /\ i' = i + 1
                /\ Goto(IF i + 1 < stationCount THEN "id" ELSE "areas")
  /\ UNCHANGED <<input, version, timestampMs, stationCount, intCount, header,
                 areaInts, id, pga, pgv, code, out>>

\* The area slice and the second loop's first test.
StartAreas ==
  /\ pc = "areas"
  /\ areaInts' = MakeAreaInts(intCount)
  /\ i' = 0
  /\ Goto(IF 0 < intCount THEN "code" ELSE "return")
  /\ UNCHANGED <<input, pos, version, timestampMs, stationCount, intCount, header,
                 stations, id, pga, pgv, code, reads, out>>

ReadAreaCode ==
  /\ pc = "code"
  /\ LET r == ReadU16(input, pos)
     IN /\ Consume(r, "code", i + 1)
        /\ code' = r.val
        /\ IF r.err.kind # "nil" THEN Fail(r.err) ELSE Goto("rawI")
  /\ UNCHANGED <<input, version, timestampMs, stationCount, intCount, header,
                 stations, areaInts, i, id, pga, pgv, out>>

\* Variant: the area loop runs until the source is used up instead of
\* intCount times.
ReadAreaIntensityUntilEnd ==
  /\ pc = "rawI"
  /\ LET r == ReadU8(input, pos)
     IN /\ Consume(r, "rawI", i + 1)
        /\ IF r.err.kind # "nil"
           THEN Fail(r.err) /\ UNCHANGED <<areaInts, i>>
           ELSE /\ areaInts' = [areaInts EXCEPT ![i + 1] =
                                  NewAreaIntensity(code, r.val)]
                /\ i' = i + 1
                /\ Goto(IF r.pos < Len(input) THEN "code" ELSE "return")
  /\ UNCHANGED <<input, version, timestampMs, stationCount, intCount, header,
                 stations, id, pga, pgv, code, out>>

\* rawI, areaInts[i] = AreaIntensity{...}, i++ and the loop test.
ReadAreaIntensity ==
  /\ pc = "rawI"
  /\ LET r == ReadU8(input, pos)
     IN /\ Consume(r, "rawI", i + 1)
        /\ IF r.err.kind # "nil"
           THEN Fail(r.err) /\ UNCHANGED <<areaInts, i>>
           ELSE /\ areaInts' = [areaInts EXCEPT ![i + 1] =
                                  NewAreaIntensity(code, r.val)]
                /\ i' = i + 1
                /\ Goto(IF i + 1 < intCount THEN "code" ELSE "return")
  /\ UNCHANGED <<input, version, timestampMs, stationCount, intCount, header,
                 stations, id, pga, pgv, code, out>>

\* return &RTSData{...}, nil
Return ==
  /\ pc = "return"
  /\ result' = [kind |-> "RTSData", Header |-> header, Stations |-> stations,
                AreaIntensities |-> areaInts]
  /\ err' = NoErr
  /\ pc' = "done"
  /\ UNCHANGED <<input, pos, version, timestampMs, stationCount, intCount, header,
                 stations, areaInts, i, id, pga, pgv, code, reads, out>>

\* A reader called on its own on a fresh parser.
Call(op, r) ==
  /\ pc = "prim"
  /\ Consume(r, op, 0)
  /\ out' = [op |-> op, err |-> r.err, val |-> r.val]
  /\ pc' = "primdone"
  /\ UNCHANGED <<input, err, result, version, timestampMs, stationCount, intCount,
                 header, stations, areaInts, i, id, pga, pgv, code>>

CallReadVarInt == Call("readVarInt", ReadVarInt(input, pos))

CallReadTime40 == Call("readTime40", ReadTime40(input, pos))

CallReadIntensityAlert == Call("readIntensityAlert", ReadIntensityAlert(input, pos))

Next ==
  \/ ReadVersion
  \/ ReadTimestamp
  \/ ReadStationCount
  \/ ReadIntCount
  \/ ReadReserved
  \/ ReadStationID
  \/ ReadPGA
  \/ ReadPGV
  \/ ReadStationIntensityAlert
  \/ StartAreas
  \/ ReadAreaCode
  \/ ReadAreaIntensity
  \/ Return
  \/ CallReadVarInt
  \/ CallReadTime40
  \/ CallReadIntensityAlert

Spec == Init /\ [][Next]_vars

\* ------------------------------------------------------ the wire layout
\* The layout of a version-1 document, read off the input by offset
\* (0-based), against which the decoder's outcome is stated.
Byte(off) == input[off + 1]

WireU16(off) == Byte(off) + 256 * Byte(off + 1)

WireU24(off) == Byte(off) + 256 * Byte(off + 1) + 65536 * Byte(off + 2)

\* The total size of the VarInt whose marker is at off.
WireVarIntLen(off) ==
  IF Byte(off) = 253 THEN 3 ELSE IF Byte(off) = 254 THEN 4 ELSE 1

\* The end of the VarInt at off, or -1 when the input ends inside it.
VarIntEnd(off) ==
  IF off = -1 \/ off >= Len(input) THEN -1
  ELSE IF off + WireVarIntLen(off) > Len(input) THEN -1
  ELSE off + WireVarIntLen(off)

\* The end of n station records from off, or -1 when the input ends inside them.
RECURSIVE StationsEnd(_, _)
StationsEnd(off, n) ==
  IF n = 0 THEN off
  ELSE LET e == VarIntEnd(VarIntEnd(off + 4))
       IN IF e = -1 \/ e + 1 > Len(input) THEN -1 ELSE StationsEnd(e + 1, n - 1)

\* The input holds the 12 bytes up to the reserved field and every record
\* its header announces.
Complete ==
  /\ Len(input) >= 12
  /\ LET e == StationsEnd(12, WireU16(6))
     IN e # -1 /\ e + 3 * WireU16(8) <= Len(input)

Returned == pc = "done"

Succeeded == pc = "done" /\ err.kind = "nil"

EndOfInput == {"EOF", "unexpected EOF"}

\* ---------------------------------------------------------------- claims

\* C1: Parse returns either an error and no document, or no error and a
\* document whose station list has header.StationCount entries and whose
\* area-intensity list has header.IntCount entries; what was decoded before a
\* failure is never returned.
C1_CountsOrNothing ==
  /\ ~Returned => result = NilData
  /\ Returned =>
       \/ err.kind # "nil" /\ result = NilData
       \/ /\ err.kind = "nil"
          /\ result.kind = "RTSData"
          /\ Len(result.Stations) = result.Header.StationCount
          /\ Len(result.AreaIntensities) = result.Header.IntCount
          /\ result.Header.StationCount = WireU16(6)
          /\ result.Header.IntCount = WireU16(8)

\* A failure after a whole station record was decoded, and a success with two
\* stations and two areas.
C1_Witness ==
  /\ Returned
  /\ err.kind = "unexpected EOF"
  /\ i = 1
  /\ stationCount = 2
  /\ stations[1] # ZeroStation

C1_WitnessSuccess ==
  /\ Succeeded
  /\ Len(result.Stations) = 2
  /\ Len(result.AreaIntensities) = 2

\* C2: a first byte other than 1 makes Parse fail with the unsupported-version
\* error carrying that byte, after one read of one byte at offset 0 and no
\* other read, whatever follows.
C2_VersionCheckedFirst ==
  (pc \notin {"prim", "primdone"} /\ input # <<>> /\ input[1] # SupportedVersion) =>
    /\ pc \in {"version", "done"}
    /\ pos <= 1
    /\ Returned =>
         /\ err = [kind |-> "unsupported RTS version", version |-> input[1]]
         /\ result = NilData
         /\ pos = 1
         /\ reads = <<[at |-> "version", rec |-> 0, off |-> 0, size |-> 1, got |-> 1]>>

C2_Witness ==
  /\ Returned
  /\ Len(input) > 12
  /\ input[1] = 2
  /\ err.kind = "unsupported RTS version"
  /\ err.version = 2

\* C3: an input that is empty, or starts with version 1 and ends before the
\* header and the announced records are complete, makes Parse fail with an
\* end-of-input error and return no document.
C3_TruncatedFails ==
  (Returned /\ (input = <<>> \/ input[1] = SupportedVersion) /\ ~Complete) =>
    /\ err.kind \in EndOfInput
    /\ result = NilData

\* The input ends right after the 0xFD marker of a VarInt.
C3_Witness ==
  /\ Returned
  /\ Len(input) > 12
  /\ input[1] = SupportedVersion
  /\ ~Complete
  /\ input[Len(input)] = 253
  /\ reads[Len(reads)].at \in {"pga", "pgv"}
  /\ reads[Len(reads)].off = Len(input)
  /\ reads[Len(reads)].size = 2
  /\ err.kind \in EndOfInput
  /\ result = NilData

\* C4: readVarInt gives raw/100, where raw is the marker itself up to 0xFC,
\* the next 2 bytes (little-endian) after 0xFD, the next 3 bytes
\* (little-endian) after 0xFE, and 0 after 0xFF; it reads no byte beyond those
\* and 0xFF raises no error.
C4_VarIntDecoding ==
  (out.op = "readVarInt" /\ input # <<>>) =>
    LET m == Byte(0)
        hundredths(raw) == out.err.kind = "nil" /\ out.val = [num |-> raw, den |-> 100]
    IN /\ m <= 252 => hundredths(m) /\ pos = 1 /\ Len(reads) = 1
       /\ (m = 253 /\ Len(input) >= 3) => hundredths(WireU16(1)) /\ pos = 3
       /\ (m = 254 /\ Len(input) >= 4) => hundredths(WireU24(1)) /\ pos = 4
       /\ m = 255 => hundredths(0) /\ pos = 1 /\ Len(reads) = 1
       /\ input = <<50>> => out.val = [num |-> 50, den |-> 100]
       /\ input = <<253, 150, 0>> => out.val = [num |-> 150, den |-> 100]
       /\ input = <<254, 64, 66, 15>> => out.val = [num |-> 100 * 10000, den |-> 100]

C4_Witness ==
  /\ out.op = "readVarInt"
  /\ input = <<254, 64, 66, 15>>
  /\ out.err.kind = "nil"
  /\ out.val.num = 1000 * 1000
  /\ pos = 4

\* An int64 between 0 and 2^42 as <<millions, units>>, value
\* millions * 10^6 + units with 0 <= units < 10^6 (2^24 = 16 * 10^6 + 777216).
ToMillions(x) ==
  LET a == x[2] * 777
      rest == (a % 1000) * 1000 + x[2] * 216 + x[1]
  IN <<16 * x[2] + (a \div 1000) + (rest \div (10 ^ 6)), rest % (10 ^ 6)>>

\* 1767225600000 + u - (2^40 when bit 39 of u is set), for
\* u = b0 + b1*2^8 + b2*2^16 + b3*2^24 + b4*2^32, as <<millions, units>>:
\* 2^32 = 4294 * 10^6 + 967296 and 2^40 = 1099511 * 10^6 + 627776.
ExpectedTime(b0, b1, b2, b3, b4) ==
  LET neg == b4 >= 128
      units == 600000 + b0 + 256 * b1 + 65536 * b2 + 777216 * b3 + 967296 * b4
               + (IF neg THEN 10 ^ 6 - 627776 ELSE 0)
      millions == 1767225 + 16 * b3 + 4294 * b4 - (IF neg THEN 1099511 + 1 ELSE 0)
  IN <<millions + (units \div (10 ^ 6)), units % (10 ^ 6)>>

LexLeq(a, b) == a[1] < b[1] \/ (a[1] = b[1] /\ a[2] <= b[2])

\* C5: readTime40 reads 5 bytes and returns 1767225600000 plus their 40-bit
\* two's-complement value as an exact 64-bit integer: 00 00 00 00 00 gives
\* 1767225600000, FF FF FF FF FF gives 1767225599999, and every result lies
\* in [1767225600000 - 2^39, 1767225600000 + 2^39 - 1]
\* = [1217469786112, 2316981413887].
C5_Time40Decoding ==
  (out.op = "readTime40" /\ Len(input) >= 5) =>
    /\ out.err.kind = "nil"
    /\ pos = 5
    /\ reads = <<[at |-> "readTime40", rec |-> 0, off |-> 0, size |-> 5, got |-> 5]>>
    /\ out.val[3] = 0
    /\ ToMillions(out.val) = ExpectedTime(Byte(0), Byte(1), Byte(2), Byte(3), Byte(4))
    /\ LexLeq(<<1217469, 786112>>, ToMillions(out.val))
    /\ LexLeq(ToMillions(out.val), <<2316981, 413887>>)
    /\ input = <<0, 0, 0, 0, 0>> => ToMillions(out.val) = <<1767225, 600000>>
    /\ input = <<255, 255, 255, 255, 255>> => ToMillions(out.val) = <<1767225, 599999>>

C5_Witness ==
  /\ out.op = "readTime40"
  /\ input = <<255, 255, 255, 255, 255>>
  /\ out.err.kind = "nil"
  /\ ToMillions(out.val) = <<1767225, 599999>>

\* The least and the greatest timestamp are decoded.
C5_WitnessExtremes ==
  /\ out.op = "readTime40"
  /\ input \in {<<0, 0, 0, 0, 128>>, <<255, 255, 255, 255, 127>>}
  /\ ToMillions(out.val) \in {<<1217469, 786112>>, <<2316981, 413887>>}

Low7(b) == IF b >= 128 THEN b - 128 ELSE b

\* The intensity/alert byte of the k-th station record.
StationRawByte(k) ==
  Byte((CHOOSE e \in {reads[n] : n \in 1..Len(reads)} :
          e.at = "intensityAlert" /\ e.rec = k).off)

\* C6: the intensity decoded from an intensity/alert byte b is
\* ((b AND 0x7F) - 30) tenths, between -30 and 97 tenths, isAlert is bit 7 of
\* b, and b with bit 7 flipped gives the same intensity.
C6_IntensityAlertDecoding ==
  /\ (out.op = "readIntensityAlert" /\ input # <<>>) =>
       LET b == Byte(0)
           flipped == IF b >= 128 THEN b - 128 ELSE b + 128
       IN /\ out.err.kind = "nil"
          /\ out.val.intensity = [num |-> Low7(b) - 30, den |-> 10]
          /\ out.val.intensity.num \in -30..97
          /\ out.val.isAlert = (b >= 128)
          /\ ReadIntensityAlert(<<flipped>>, 0).val.intensity = out.val.intensity
          /\ ReadIntensityAlert(<<flipped>>, 0).val.isAlert # out.val.isAlert
          /\ b = 100 => out.val = [intensity |-> [num |-> 70, den |-> 10], isAlert |-> FALSE]
          /\ b = 228 => out.val = [intensity |-> [num |-> 70, den |-> 10], isAlert |-> TRUE]
  /\ Succeeded =>
       \A k \in 1..Len(result.Stations) :
         /\ result.Stations[k].Intensity = [num |-> Low7(StationRawByte(k)) - 30, den |-> 10]
         /\ result.Stations[k].IsAlert = (StationRawByte(k) >= 128)

C6_Witness ==
  /\ out.op = "readIntensityAlert"
  /\ input[1] = 228
  /\ out.val = [intensity |-> [num |-> 70, den |-> 10], isAlert |-> TRUE]

C6_WitnessStation ==
  /\ Succeeded
  /\ Len(result.Stations) = 1
  /\ StationRawByte(1) = 255
  /\ result.Stations[1].Intensity.num = 97
  /\ result.Stations[1].IsAlert

ReadsSet == {reads[n] : n \in 1..Len(reads)}

\* The raw intensity byte of the j-th area-intensity record.
AreaRawByte(j) == Byte((CHOOSE e \in ReadsSet : e.at = "rawI" /\ e.rec = j).off)

\* C7 as stated: the area intensity decoded from a byte is the station
\* intensity decoded from the same byte, so bit 7 does not matter.
C7_Original ==
  Succeeded =>
    \A j \in 1..Len(result.AreaIntensities) :
      result.AreaIntensities[j].Intensity = StationIntensity(AreaRawByte(j))

\* C7 (amended): the area intensity decoded from byte b is (b - 30) tenths
\* over all 8 bits of b, between -30 and 225 tenths; it is the station
\* intensity decoded from b exactly when bit 7 of b is clear.
C7_AreaIntensityWholeByte ==
  Succeeded =>
    \A j \in 1..Len(result.AreaIntensities) :
      LET b == AreaRawByte(j)
          x == result.AreaIntensities[j].Intensity
      IN /\ x = [num |-> b - 30, den |-> 10]
         /\ x.num \in -30..225
         /\ (x = StationIntensity(b)) <=> (b < 128)
         /\ b >= 128 => x.num = StationIntensity(b).num + 128

C7_Witness ==
  /\ Succeeded
  /\ Len(result.AreaIntensities) = 1
  /\ AreaRawByte(1) = 228
  /\ result.AreaIntensities[1].Intensity = [num |-> 198, den |-> 10]
  /\ StationIntensity(228) = [num |-> 70, den |-> 10]

WireVarIntRaw(off) ==
  IF Byte(off) <= 252 THEN Byte(off)
  ELSE IF Byte(off) = 253 THEN WireU16(off + 1)
  ELSE IF Byte(off) = 254 THEN WireU24(off + 1)
  ELSE 0

WireStationLen(s) ==
  4 + WireVarIntLen(s + 4) + WireVarIntLen(s + 4 + WireVarIntLen(s + 4)) + 1

\* Where the k-th station record starts: the first at 12, each next one
\* where the one before it ends.
RECURSIVE WireStationStart(_)
WireStationStart(k) ==
  IF k = 1 THEN 12
  ELSE WireStationStart(k - 1) + WireStationLen(WireStationStart(k - 1))

\* The station record at s: id, pga, pgv, intensity/alert in this order.
WireStation(s) ==
  LET b == Byte(s + WireStationLen(s) - 1)
  IN [ID |-> <<WireU24(s), Byte(s + 3)>>,
      PGA |-> [num |-> WireVarIntRaw(s + 4), den |-> 100],
      PGV |-> [num |-> WireVarIntRaw(s + 4 + WireVarIntLen(s + 4)), den |-> 100],
      Intensity |-> [num |-> Low7(b) - 30, den |-> 10],
      IsAlert |-> (b >= 128)]

\* The area-intensity record at a: code, raw intensity.
WireArea(a) ==
  [Code |-> WireU16(a), Intensity |-> [num |-> Byte(a + 2) - 30, den |-> 10]]

\* C8: on success stations[k] is the k-th station record on the wire, the
\* first starting at offset 12 and each next one where the one before ends,
\* and areaIntensities[j] is the j-th 3-byte record after the last station
\* record; the reads are contiguous from offset 0, none repeated or skipped.
C8_WireOrder ==
  Succeeded =>
    LET n == WireU16(6)
        m == WireU16(8)
    IN /\ Len(result.Stations) = n
       /\ Len(result.AreaIntensities) = m
       /\ \A k \in 1..n : result.Stations[k] = WireStation(WireStationStart(k))
       /\ \A j \in 1..m :
            result.AreaIntensities[j] = WireArea(WireStationStart(n + 1) + 3 * (j - 1))
       /\ n > 0 => \E e \in ReadsSet : e.at = "id" /\ e.rec = 1 /\ e.off = 12
       /\ reads[1].off = 0
       /\ \A q \in 1..(Len(reads) - 1) : reads[q + 1].off = reads[q].off + reads[q].size
       /\ pos = WireStationStart(n + 1) + 3 * m

\* Two different station records and two different area records, in order.
C8_Witness ==
  /\ Succeeded
  /\ Len(result.Stations) = 2
  /\ result.Stations[1].PGA = [num |-> 150, den |-> 100]
  /\ result.Stations[1].PGV = [num |-> 1000 * 1000, den |-> 100]
  /\ result.Stations[2].PGA = [num |-> 0, den |-> 100]
  /\ result.Stations[2].PGV = [num |-> 50, den |-> 100]
  /\ Len(result.AreaIntensities) = 2
  /\ result.AreaIntensities[1].Code = 65535
  /\ result.AreaIntensities[2].Code = 10000

RECURSIVE SumSizes(_, _, _)
SumSizes(n, k, fields) ==
  IF n = 0 THEN 0
  ELSE SumSizes(n - 1, k, fields)
       + (IF reads[n].rec = k /\ reads[n].at \in fields THEN reads[n].size ELSE 0)

StationFields == {"id", "pga", "pgv", "intensityAlert"}

\* How many bytes the reads of the k-th station record asked for.
RecBytes(k) == SumSizes(Len(reads), k, StationFields)

FieldBytes(k, f) == SumSizes(Len(reads), k, {f})

\* The k-th station record was decoded to its last field.
Decoded(k) ==
  \E e \in ReadsSet : e.at = "intensityAlert" /\ e.rec = k /\ e.got = e.size

LastRead == reads[Len(reads)]

ShortRead == Len(reads) > 0 /\ LastRead.got < LastRead.size

C10_WitnessNothingLeft ==
  /\ Returned
  /\ ShortRead
  /\ LastRead.size = 4
  /\ LastRead.got = 0
  /\ err.kind = "EOF"

InParse == pc \notin {"prim", "primdone"}

\* The phase a read belongs to: the five header fields, the station
\* records, the area-intensity records.
Phase(e) ==
  CASE e.at = "version" -> 1
    [] e.at = "timestamp" -> 2
    [] e.at = "stationCount" -> 3
    [] e.at = "intCount" -> 4
    [] e.at = "reserved" -> 5
    [] e.at \in StationFields -> 6
    [] e.at \in {"code", "rawI"} -> 7

\* The read f is the one that has to come right after the read e.
Follows(e, f) ==
  LET n == WireU16(6)
      m == WireU16(8)
      firstRecord == IF n > 0 THEN f.at = "id" /\ f.rec = 1
                     ELSE m > 0 /\ f.at = "code" /\ f.rec = 1
      payload == /\ f.at = e.at /\ f.rec = e.rec
                 /\ e.size = 1
                 /\ \/ Byte(e.off) = 253 /\ f.size = 2
                    \/ Byte(e.off) = 254 /\ f.size = 3
      marker == e.size = 1 /\ Byte(e.off) \notin {253, 254}
  IN CASE Phase(e) < 5 -> Phase(f) = Phase(e) + 1 /\ f.rec = 0
       [] Phase(e) = 5 -> firstRecord
       [] e.at = "id" -> f.at = "pga" /\ f.rec = e.rec /\ f.size = 1
       [] e.at = "pga" -> \/ payload
                          \/ (marker \/ e.size > 1)
                             /\ f.at = "pgv" /\ f.rec = e.rec /\ f.size = 1
       [] e.at = "pgv" -> \/ payload
                          \/ (marker \/ e.size > 1)
                             /\ f.at = "intensityAlert" /\ f.rec = e.rec
       [] e.at = "intensityAlert" ->
            IF e.rec < n THEN f.at = "id" /\ f.rec = e.rec + 1
            ELSE e.rec = n /\ m > 0 /\ f.at = "code" /\ f.rec = 1
       [] e.at = "code" -> f.at = "rawI" /\ f.rec = e.rec
       [] e.at = "rawI" -> e.rec < m /\ f.at = "code" /\ f.rec = e.rec + 1

\* The places of Parse at which a step is waiting to run: each step of Parse
\* is guarded by its place alone.
ParseLabels ==
  {"version", "timestamp", "stationCount", "intCount", "reserved", "id", "pga",
   "pgv", "intensityAlert", "areas", "code", "rawI", "return"}

\* The j-th area-intensity record was read to its last byte.
AreaRead(j) == \E e \in ReadsSet : e.at = "rawI" /\ e.rec = j /\ e.got = e.size

\* The reads of a run of Parse so far are in wire order, and what a run
\* that has returned has read.
SinglePass ==
  InParse =>
    /\ Len(reads) > 0 => reads[1].at = "version" /\ reads[1].off = 0
    /\ \A q \in 1..(Len(reads) - 1) :
         /\ reads[q].got = reads[q].size
         /\ Follows(reads[q], reads[q + 1])
         /\ Phase(reads[q]) <= Phase(reads[q + 1])
    /\ \A e \in ReadsSet :
         /\ Phase(e) = 6 => e.rec \in 1..stationCount
         /\ Phase(e) = 7 =>
              /\ e.rec \in 1..intCount
              /\ \A k \in 1..stationCount : Decoded(k)
              /\ stationCount = WireU16(6)
    /\ Len(reads) <= 5 + 6 * stationCount + 2 * intCount
    /\ Succeeded =>
         /\ stationCount = WireU16(6)
         /\ intCount = WireU16(8)
         /\ \A k \in 1..stationCount : Decoded(k)
         /\ \A j \in 1..intCount : AreaRead(j)
         /\ \A e \in ReadsSet : e.got = e.size
         /\ Len(reads) >= 5 + 4 * stationCount + 2 * intCount
         /\ pos = WireStationStart(stationCount + 1) + 3 * intCount
         /\ pos <= Len(input)
    /\ (Returned /\ input # <<>> /\ input[1] = SupportedVersion /\ Complete) => Succeeded
    /\ ~Returned => pc \in ParseLabels

\* How far a call is from its end: the bytes the source still holds, then
\* the steps left in the pass over one record.
LabelRank ==
  CASE pc = "prim" -> 0
    [] pc = "version" -> 1
    [] pc = "timestamp" -> 2
    [] pc = "stationCount" -> 3
    [] pc = "intCount" -> 4
    [] pc = "reserved" -> 5
    [] pc = "id" -> 6
    [] pc = "pga" -> 7
    [] pc = "pgv" -> 8
    [] pc = "intensityAlert" -> 9
    [] pc = "areas" -> 10
    [] pc = "code" -> 11
    [] pc = "rawI" -> 12
    [] pc = "return" -> 13
    [] pc \in {"done", "primdone"} -> 14

Remaining == (Len(input) - pos) * 14 + (14 - LabelRank)

\* C11: the reads of Parse come in the order version, timestamp,
\* stationCount, intCount, reserved, the station records, the area-intensity
\* records, none skipped or revisited; no area-intensity byte is read before
\* stationCount station records are complete; a successful run reads exactly
\* stationCount station records and intCount area-intensity records and
\* leaves what follows unread, which makes no run fail; and every run
\* returns: a run that has not returned has a step to take, it makes at
\* most 5 + 6 * stationCount + 2 * intCount reads, and every step brings it
\* nearer to its end (Remaining, never negative, decreases).
C11_SinglePassAndReturns ==
  /\ []SinglePass
  /\ [](Remaining >= 0)
  /\ [][Remaining' < Remaining]_vars

\* A document of two stations and two areas with a byte after it: decoded,
\* the byte unread.
C11_Witness ==
  /\ Succeeded
  /\ stationCount = 2
  /\ intCount = 2
  /\ pos = Len(input) - 1
  /\ reads[Len(reads)].at = "rawI"
  /\ reads[Len(reads)].rec = 2

====
